---------------------------- MODULE Spec2Model ----------------------------
(***************************************************************************)
(* Model of the deferred-retune scheduler of the bladeRF NIOS firmware,    *)
(* hdl/fpga/ip/altera/nios_system/software/bladeRF_nios/src/pkt_retune.c:  *)
(* the static ring buffer q, enqueue_retune / dequeue_retune /             *)
(* peek_next_retune, the polled scheduler step pkt_retune_work and the     *)
(* request dispatcher pkt_retune.                                          *)
(*                                                                         *)
(* External collaborators (the tuning and band-select primitives, the      *)
(* hardware timestamp counter, the timer event that marks a Scheduled      *)
(* head Ready) are not part of the file; they are nondeterministic.        *)
(***************************************************************************)
EXTENDS Integers, Sequences, FiniteSets, TLC

(* ------------------------------ bounds -------------------------------- *)

\* RETUNE_QUEUE_MAX is 32 in the source and must be a power of two; the
\* model keeps the power-of-two shape and bounds the exponent.
QueueBits == 2

\* Largest value of the hardware timestamp counter the model follows;
\* deferred timestamps are drawn from 1..MaxTime.
MaxTime == 1

\* Synthesizer field sets are drawn from 1..MaxSynth.
MaxSynth == 1

\* Number of dispatcher calls followed under Spec.
MaxRequests == 2


(* ----------------------------- constants ------------------------------ *)

RETUNE_QUEUE_MAX == 2 ^ QueueBits
QUEUE_FULL == 255
QUEUE_EMPTY == 254

ENTRY_STATE_INVALID == 0
ENTRY_STATE_NEW == 1
ENTRY_STATE_SCHEDULED == 2
ENTRY_STATE_READY == 3

BLADERF_MODULE_RX == 0
BLADERF_MODULE_TX == 1

\* "apply now" timestamp
NIOS_PKT_RETUNE_NOW == 0

\* f.vcocap_result = 0xff: no computed capacitance available
VCOCAP_UNKNOWN == 255

\* Single-bit flags are modelled as members of a set: |= is union,
\* &= ~ is set difference, (x & FLAG) != 0 is membership.
LMS_FREQ_FLAGS_LOW_BAND == "LOW_BAND"
LMS_FREQ_FLAGS_FORCE_VCOCAP == "FORCE_VCOCAP"
NIOS_PKT_RETUNERESP_FLAG_SUCCESS == "SUCCESS"
NIOS_PKT_RETUNERESP_FLAG_TSVTUNE_VALID == "TSVTUNE_VALID"

ValidModules == {BLADERF_MODULE_RX, BLADERF_MODULE_TX}
\* what nios_pkt_retune_unpack can deliver: the two modules and a value
\* that is neither
ModuleValues == ValidModules \cup {BLADERF_MODULE_TX + 1}

Slots == 0 .. (RETUNE_QUEUE_MAX - 1)

(* ------------------------------ helpers ------------------------------- *)

RECURSIVE BitAnd(_, _)
\* a & b on naturals
BitAnd(a, b) ==
    IF a = 0 \/ b = 0 THEN 0
    ELSE (a % 2) * (b % 2) + 2 * BitAnd(a \div 2, b \div 2)

\* uint8_t arithmetic
U8(x) == x % 256

\* struct lms_freq after memset(0)
ZeroFreq ==
    [nint |-> 0, nfrac |-> 0, freqsel |-> 0, vcocap |-> 0,
     vcocap_result |-> 0, flags |-> {}]

\* struct queue_entry after memset(0)
ZeroEntry ==
    [state |-> ENTRY_STATE_INVALID, module |-> 0, freq |-> ZeroFreq]

\* struct queue after memset(0)
ZeroQueue ==
    [count |-> 0, ins_idx |-> 0, rem_idx |-> 0,
     entries |-> [i \in Slots |-> ZeroEntry]]

(* ----------------------------- variables ------------------------------ *)

VARIABLES
    q,          \* the static struct queue
    now,        \* the hardware timestamp counter read by time_tamer_read
    req,        \* the request last unpacked by pkt_retune
    resp,       \* the response last packed by pkt_retune
    calls,      \* primitives called by the latest pkt_retune / pkt_retune_work
    op,         \* the latest operation of this file that ran
    out,        \* the caller's destination passed to dequeue_retune
    ret,        \* value returned by the latest direct enqueue / dequeue call
    fault,      \* the firmware has crashed
    accepted,   \* history: the requests accepted into the queue, in order
    tkt,        \* history: per slot, index in accepted of the entry it holds
    applied,    \* history: per deferred tuning attempt, the entry's index
    nRemoved,   \* history: number of entries removed from the queue
    nIssued,    \* history: number of operations called by the driver
    asked,      \* history: the requests behind the entries of accepted
    pc          \* where the polling loop stands inside an operation

vars ==
    <<q, now, req, resp, calls, op, out, ret, fault,
      accepted, tkt, applied, nRemoved, nIssued, asked, pc>>

\* the polling loop is between two operations; e is the local pointer of
\* pkt_retune_work (a slot), k the write an operation has come to
Idle == [at |-> "idle", e |-> 0, k |-> 0]

(* --------------------------- the ring buffer -------------------------- *)

\* enqueue_retune that masks the insertion index with RETUNE_QUEUE_MAX
\* instead of RETUNE_QUEUE_MAX - 1
enqueue_retune_bad_mask(qq, f, m) ==
    IF qq.count >= RETUNE_QUEUE_MAX
    THEN [q |-> qq, ret |-> QUEUE_FULL]
    ELSE LET e == [state |-> ENTRY_STATE_NEW, module |-> m, freq |-> f]
             q1 == [qq EXCEPT !.entries[qq.ins_idx] = e,
                              !.ins_idx = BitAnd(U8(qq.ins_idx + 1),
                                                 RETUNE_QUEUE_MAX),
                              !.count = U8(qq.count + 1)]
         IN [q |-> q1, ret |-> q1.count]

\* enqueue_retune with the capacity test off by one (> for >=)
enqueue_retune_off_by_one(qq, f, m) ==
    IF qq.count > RETUNE_QUEUE_MAX
    THEN [q |-> qq, ret |-> QUEUE_FULL]
    ELSE LET e == [state |-> ENTRY_STATE_NEW, module |-> m, freq |-> f]
             q1 == [qq EXCEPT !.entries[qq.ins_idx] = e,
                              !.ins_idx = BitAnd(U8(qq.ins_idx + 1),
                                                 RETUNE_QUEUE_MAX - 1),
                              !.count = U8(qq.count + 1)]
         IN [q |-> q1, ret |-> q1.count]

\* enqueue_retune without "q.entries[q.ins_idx].state = ENTRY_STATE_NEW"
enqueue_retune_no_state(qq, f, m) ==
    IF qq.count >= RETUNE_QUEUE_MAX
    THEN [q |-> qq, ret |-> QUEUE_FULL]
    ELSE LET q1 == [qq EXCEPT !.entries[qq.ins_idx].freq = f,
                              !.entries[qq.ins_idx].module = m,
                              !.ins_idx = BitAnd(U8(qq.ins_idx + 1),
                                                 RETUNE_QUEUE_MAX - 1),
                              !.count = U8(qq.count + 1)]
         IN [q |-> q1, ret |-> q1.count]

\* enqueue_retune(f, m): the queue after the call and the value returned
enqueue_retune(qq, f, m) ==
    IF qq.count >= RETUNE_QUEUE_MAX
    THEN [q |-> qq, ret |-> QUEUE_FULL]
    ELSE LET e == [state |-> ENTRY_STATE_NEW, module |-> m, freq |-> f]
             q1 == [qq EXCEPT !.entries[qq.ins_idx] = e,
                              !.ins_idx = BitAnd(U8(qq.ins_idx + 1),
                                                 RETUNE_QUEUE_MAX - 1),
                              !.count = U8(qq.count + 1)]
         IN [q |-> q1, ret |-> q1.count]

\* peek_next_retune that points at the newest entry instead of the oldest
peek_next_retune_newest(qq) ==
    IF qq.count = 0 THEN -1
    ELSE BitAnd(U8(qq.ins_idx + 255), RETUNE_QUEUE_MAX - 1)

\* peek_next_retune(): "NULL" or the index of the entry pointed to
peek_next_retune(qq) ==
    IF qq.count = 0 THEN -1 ELSE qq.rem_idx


\* What the stray copy of dequeue_retune may leave behind.  The call is
\*     memcpy(&e, &q.entries[q.rem_idx], sizeof(e[0]));
\* whose destination is the pointer parameter itself, not the caller's
\* struct: sizeof(struct queue_entry) bytes are written over a pointer-sized
\* local and the stack beyond it.  The behaviour is undefined; the builds
\* can leave the caller's struct untouched, overwrite it with bytes of the
\* ring, or crash on return.
StrayCopyOutcomes(qq, e) ==
    {[out |-> x, fault |-> c] :
        x \in {e} \cup {qq.entries[i] : i \in Slots}, c \in BOOLEAN}

\* dequeue_retune without the "q.count == 0" test
dequeue_retune_no_empty_check(qq, has_e, e, stray) ==
    LET q1 == [qq EXCEPT !.rem_idx = BitAnd(U8(qq.rem_idx + 1),
                                            RETUNE_QUEUE_MAX - 1),
                         !.count = U8(qq.count + 255)]
    IN [q |-> q1, ret |-> q1.count,
        out |-> IF has_e THEN stray.out ELSE e,
        fault |-> IF has_e THEN stray.fault ELSE FALSE]

\* dequeue_retune that masks the removal index with RETUNE_QUEUE_MAX
\* instead of RETUNE_QUEUE_MAX - 1
dequeue_retune_bad_mask(qq, has_e, e, stray) ==
    IF qq.count = 0
    THEN [q |-> qq, ret |-> QUEUE_EMPTY, out |-> e, fault |-> FALSE]
    ELSE LET q1 == [qq EXCEPT !.rem_idx = BitAnd(U8(qq.rem_idx + 1),
                                                 RETUNE_QUEUE_MAX),
                              !.count = U8(qq.count - 1)]
         IN [q |-> q1, ret |-> q1.count,
             out |-> IF has_e THEN stray.out ELSE e,
             fault |-> IF has_e THEN stray.fault ELSE FALSE]

\* dequeue_retune(e): has_e is e != NULL, e the caller's struct, stray the
\* outcome of the copy; the queue, the value returned, the caller's struct
dequeue_retune(qq, has_e, e, stray) ==
    IF qq.count = 0
    THEN [q |-> qq, ret |-> QUEUE_EMPTY, out |-> e, fault |-> FALSE]
    ELSE LET q1 == [qq EXCEPT !.rem_idx = BitAnd(U8(qq.rem_idx + 1),
                                                 RETUNE_QUEUE_MAX - 1),
                              !.count = U8(qq.count - 1)]
         IN [q |-> q1, ret |-> q1.count,
             out |-> IF has_e THEN stray.out ELSE e,
             fault |-> IF has_e THEN stray.fault ELSE FALSE]

\* pkt_retune_init(): memset(&q, 0, sizeof(q))
pkt_retune_init == ZeroQueue

(* ------------------------ external collaborators ---------------------- *)

\* lms_set_precalculated_frequency(NULL, module, &f): the status returned
\* and whether a capacitance result was written into f->vcocap_result
TuneOutcomes == [status : {0, -1}, wrote : BOOLEAN]

\* no primitive reached
NoTune == [status |-> 0, wrote |-> FALSE]

\* f after the primitive: the result written is the capacitance in use,
\* which is the hint f->vcocap
Tuned(f, tune) ==
    IF tune.wrote THEN [f EXCEPT !.vcocap_result = f.vcocap] ELSE f

\* band_select(NULL, module, low_band): the status returned
BandOutcomes == {0, -1}

\* the log entry of a call of the tuning primitive: its arguments, the
\* status it returned and the f->vcocap_result it left
TuneCall(m, f, tune) ==
    [fn |-> "lms_set_precalculated_frequency", module |-> m, freq |-> f,
     low_band |-> FALSE, status |-> tune.status,
     result |-> Tuned(f, tune).vcocap_result]

\* the log entry of a call of band_select
BandCall(m, lb, st) ==
    [fn |-> "band_select", module |-> m, freq |-> ZeroFreq,
     low_band |-> lb, status |-> st, result |-> 0]

\* INCREMENT_ERROR_COUNT() (a no-op unless BLADERF_NIOS_DEBUG)
ErrorCount ==
    [fn |-> "INCREMENT_ERROR_COUNT", module |-> 0, freq |-> ZeroFreq,
     low_band |-> FALSE, status |-> 0, result |-> 0]

(* ----------------------------- requests ------------------------------- *)

SynthFields ==
    {[nint |-> k, nfrac |-> 2 * k, freqsel |-> 3 * k, vcocap |-> 4 * k] :
        k \in 1 .. MaxSynth}

\* what nios_pkt_retune_unpack yields
Requests ==
    {[module |-> m, timestamp |-> t, nint |-> s.nint, nfrac |-> s.nfrac,
      freqsel |-> s.freqsel, vcocap |-> s.vcocap,
      low_band |-> lb, quick_tune |-> qt] :
        m \in ModuleValues, t \in {NIOS_PKT_RETUNE_NOW} \cup (1 .. MaxTime),
        s \in SynthFields, lb \in BOOLEAN, qt \in BOOLEAN}

ZeroReq ==
    [module |-> 0, timestamp |-> 0, nint |-> 0, nfrac |-> 0, freqsel |-> 0,
     vcocap |-> 0, low_band |-> FALSE, quick_tune |-> FALSE]

ZeroResp == [duration |-> 0, vcocap_result |-> 0, flags |-> {}]

\* the struct lms_freq f built without "f.vcocap_result = 0xff"
FreqOf_no_sentinel(r) ==
    [nint |-> r.nint, nfrac |-> r.nfrac, freqsel |-> r.freqsel,
     vcocap |-> r.vcocap, vcocap_result |-> 0,
     flags |-> (IF r.low_band THEN {LMS_FREQ_FLAGS_LOW_BAND} ELSE {}) \cup
               (IF r.quick_tune THEN {LMS_FREQ_FLAGS_FORCE_VCOCAP} ELSE {})]

\* the struct lms_freq f that pkt_retune builds from the request
FreqOf(r) ==
    LET f0 == [nint |-> r.nint, nfrac |-> r.nfrac, freqsel |-> r.freqsel,
               vcocap |-> r.vcocap, vcocap_result |-> VCOCAP_UNKNOWN,
               flags |-> IF r.low_band THEN {LMS_FREQ_FLAGS_LOW_BAND}
                         ELSE {}]
    IN IF r.quick_tune
       THEN [f0 EXCEPT !.flags = @ \cup {LMS_FREQ_FLAGS_FORCE_VCOCAP}]
       ELSE f0

(* --------------------------- the dispatcher --------------------------- *)

\* pkt_retune, timestamp == NIOS_PKT_RETUNE_NOW, that skips "goto out"
\* after a failed tuning call
retune_now_no_goto(qq, r, f, t0, t1, tune, band) ==
    LET f1 == Tuned(f, tune)
        c1 == TuneCall(r.module, f, tune)
        c2 == BandCall(r.module, r.low_band, band)
    IN IF r.module \in ValidModules
       THEN [q |-> qq, status |-> band, f |-> f1,
             flags |-> {NIOS_PKT_RETUNERESP_FLAG_SUCCESS,
                        NIOS_PKT_RETUNERESP_FLAG_TSVTUNE_VALID},
             duration |-> IF band # 0 THEN 0 ELSE t1 - t0,
             calls |-> <<c1, c2>>, now |-> t1]
       ELSE [q |-> qq, status |-> -1, f |-> f, duration |-> 0,
             flags |-> {NIOS_PKT_RETUNERESP_FLAG_SUCCESS},
             calls |-> <<>>, now |-> t0]

\* pkt_retune, timestamp == NIOS_PKT_RETUNE_NOW, that tunes only when
\* nothing is queued and queues the request otherwise
retune_now_behind_queue(qq, r, f, t0, t1, tune, band) ==
    LET c1 == TuneCall(r.module, f, tune)
        c2 == BandCall(r.module, r.low_band, band)
    IN IF r.module \in ValidModules /\ qq.count = 0
       THEN [q |-> qq, status |-> IF tune.status # 0 THEN -1 ELSE band,
             f |-> Tuned(f, tune),
             flags |-> IF tune.status # 0
                       THEN {NIOS_PKT_RETUNERESP_FLAG_SUCCESS}
                       ELSE {NIOS_PKT_RETUNERESP_FLAG_SUCCESS,
                             NIOS_PKT_RETUNERESP_FLAG_TSVTUNE_VALID},
             duration |-> IF tune.status # 0 \/ band # 0 THEN 0 ELSE t1 - t0,
             calls |-> IF tune.status # 0 THEN <<c1>> ELSE <<c1, c2>>,
             now |-> t1]
       ELSE [q |-> enqueue_retune(qq, f, r.module).q, status |-> -1,
             f |-> f, duration |-> 0,
             flags |-> {NIOS_PKT_RETUNERESP_FLAG_SUCCESS},
             calls |-> <<>>, now |-> t0]

\* pkt_retune, timestamp == NIOS_PKT_RETUNE_NOW, that packs the
\* f.vcocap_result it set before the tuning call when band_select fails
retune_now_stale_result(qq, r, f, t0, t1, tune, band) ==
    LET flags == {NIOS_PKT_RETUNERESP_FLAG_SUCCESS}
        f1 == Tuned(f, tune)
        c1 == TuneCall(r.module, f, tune)
        c2 == BandCall(r.module, r.low_band, band)
    IN IF r.module \in ValidModules
       THEN IF tune.status # 0
            THEN [q |-> qq, status |-> tune.status, flags |-> flags,
                  duration |-> 0, f |-> f1, calls |-> <<c1>>, now |-> t0]
            ELSE IF band # 0
                 THEN [q |-> qq, status |-> band, duration |-> 0, f |-> f,
                       flags |-> flags \cup
                           {NIOS_PKT_RETUNERESP_FLAG_TSVTUNE_VALID},
                       calls |-> <<c1, c2>>, now |-> t0]
                 ELSE [q |-> qq, status |-> 0, duration |-> t1 - t0,
                       f |-> f1,
                       flags |-> flags \cup
                           {NIOS_PKT_RETUNERESP_FLAG_TSVTUNE_VALID},
                       calls |-> <<c1, c2>>, now |-> t1]
       ELSE [q |-> qq, status |-> -1, flags |-> flags, duration |-> 0,
             f |-> f, calls |-> <<>>, now |-> t0]

\* pkt_retune, timestamp == NIOS_PKT_RETUNE_NOW: t0 and t1 are the two
\* reads of the timestamp counter (t0 <= t1 < 2^64, so the uint64_t
\* subtraction does not wrap), tune and band the primitives' outcomes
retune_now(qq, r, f, t0, t1, tune, band) ==
    LET flags == {NIOS_PKT_RETUNERESP_FLAG_SUCCESS}
        f1 == Tuned(f, tune)
        c1 == TuneCall(r.module, f, tune)
        c2 == BandCall(r.module, r.low_band, band)
    IN IF r.module \in ValidModules
       THEN IF tune.status # 0
            THEN [q |-> qq, status |-> tune.status, flags |-> flags,
                  duration |-> 0, f |-> f1, calls |-> <<c1>>, now |-> t0]
            ELSE IF band # 0
                 THEN [q |-> qq, status |-> band, duration |-> 0, f |-> f1,
                       flags |-> flags \cup
                           {NIOS_PKT_RETUNERESP_FLAG_TSVTUNE_VALID},
                       calls |-> <<c1, c2>>, now |-> t0]
                 ELSE [q |-> qq, status |-> 0, duration |-> t1 - t0,
                       f |-> f1,
                       flags |-> flags \cup
                           {NIOS_PKT_RETUNERESP_FLAG_TSVTUNE_VALID},
                       calls |-> <<c1, c2>>, now |-> t1]
       ELSE [q |-> qq, status |-> -1, flags |-> flags, duration |-> 0,
             f |-> f, calls |-> <<>>, now |-> t0]

\* pkt_retune, any other timestamp: the request is queued
retune_later(qq, r, f, t0) ==
    LET e == enqueue_retune(qq, f, r.module)
    IN [q |-> e.q, queue_size |-> e.ret,
        status |-> IF e.ret = QUEUE_FULL THEN -1 ELSE 0,
        flags |-> {NIOS_PKT_RETUNERESP_FLAG_SUCCESS},
        duration |-> 0, f |-> f, calls |-> <<>>, now |-> t0]

\* pkt_retune(b): the queue, the response, the primitives called and the
\* timestamp counter after the call
pkt_retune_do(qq, r, t0, t1, tune, band) ==
    LET f == FreqOf(r)
        a == IF r.timestamp = NIOS_PKT_RETUNE_NOW
             THEN retune_now(qq, r, f, t0, t1, tune, band)
             ELSE retune_later(qq, r, f, t0)
        flags == IF a.status # 0
                 THEN a.flags \ {NIOS_PKT_RETUNERESP_FLAG_SUCCESS}
                 ELSE a.flags
    IN [q |-> a.q, calls |-> a.calls, now |-> a.now,
        accepted |-> r.timestamp # NIOS_PKT_RETUNE_NOW
                     /\ a.queue_size # QUEUE_FULL,
        resp |-> [duration |-> a.duration,
                  vcocap_result |-> a.f.vcocap_result,
                  flags |-> flags]]

\* history kept when an enqueue stored (m, f) at slot i for a request
\* with timestamp ts
Accept(i, m, f, ts) ==
    /\ accepted' = Append(accepted,
                          [module |-> m, freq |-> f, timestamp |-> ts])
    /\ tkt' = [tkt EXCEPT ![i] = Len(accepted) + 1]

\* The outcomes the dispatcher can observe for request r: the primitives
\* and the second read of the counter are reached only on the immediate
\* path with a valid module.
Immediate(r) ==
    r.timestamp = NIOS_PKT_RETUNE_NOW /\ r.module \in ValidModules

TuneOutcomesOf(r) ==
    IF Immediate(r) THEN TuneOutcomes
    ELSE {NoTune}

BandOutcomesOf(r) == IF Immediate(r) THEN BandOutcomes ELSE {0}

ReadsAfter(r, t0) == IF Immediate(r) THEN t0 .. MaxTime ELSE {t0}

pkt_retune(r) ==
    /\ ~fault
    /\ \E t1 \in ReadsAfter(r, now), tune \in TuneOutcomesOf(r),
          band \in BandOutcomesOf(r) :
        LET d == pkt_retune_do(q, r, now, t1, tune, band)
        IN /\ q' = d.q
           /\ now' = d.now
           /\ resp' = d.resp
           /\ calls' = d.calls
           /\ IF d.accepted
              THEN Accept(q.ins_idx, r.module, FreqOf(r), r.timestamp)
              ELSE UNCHANGED <<accepted, tkt>>
           /\ asked' = IF d.accepted THEN Append(asked, r) ELSE asked
    /\ req' = r
    /\ op' = "pkt_retune"
    /\ nIssued' = nIssued + 1
    /\ UNCHANGED <<out, ret, fault, applied, nRemoved, pc>>


(* -------------------------- the scheduler step ------------------------ *)

\* case ENTRY_STATE_NEW that marks the entry Ready at once
work_new_ready(qq, i) ==
    [q |-> [qq EXCEPT !.entries[i].state = ENTRY_STATE_READY],
     calls |-> <<>>, slot |-> i, tuned |-> FALSE, dequeued |-> FALSE]

\* case ENTRY_STATE_NEW that leaves the entry New
work_new_idle(qq, i) ==
    [q |-> qq, calls |-> <<>>, slot |-> i, tuned |-> FALSE,
     dequeued |-> FALSE]

\* pkt_retune_work, case ENTRY_STATE_NEW
work_new(qq, i) ==
    [q |-> [qq EXCEPT !.entries[i].state = ENTRY_STATE_SCHEDULED],
     calls |-> <<>>, slot |-> i, tuned |-> FALSE, dequeued |-> FALSE]

\* case ENTRY_STATE_SCHEDULED that gives up waiting and marks the entry
\* Ready itself
work_scheduled_timeout(qq, i) ==
    [q |-> [qq EXCEPT !.entries[i].state = ENTRY_STATE_READY],
     calls |-> <<>>, slot |-> i, tuned |-> FALSE, dequeued |-> FALSE]

\* pkt_retune_work, case ENTRY_STATE_SCHEDULED
work_scheduled(qq, i) ==
    [q |-> qq, calls |-> <<>>, slot |-> i, tuned |-> FALSE,
     dequeued |-> FALSE]

\* case ENTRY_STATE_READY that drops the entry only when the retune
\* succeeded
work_ready_retry(qq, i, tune, band) ==
    LET e == qq.entries[i]
        c1 == TuneCall(e.module, e.freq, tune)
        c2 == BandCall(e.module, LMS_FREQ_FLAGS_LOW_BAND \in e.freq.flags,
                       band)
        q1 == [qq EXCEPT !.entries[i].freq = Tuned(@, tune)]
        d == dequeue_retune(q1, FALSE, ZeroEntry,
                            [out |-> ZeroEntry, fault |-> FALSE])
        ok == tune.status = 0 /\ band = 0
    IN [q |-> IF ok THEN d.q ELSE q1,
        calls |-> IF tune.status # 0 THEN <<c1, ErrorCount>>
                  ELSE IF band # 0 THEN <<c1, c2, ErrorCount>>
                  ELSE <<c1, c2>>,
        slot |-> i, tuned |-> TRUE,
        dequeued |-> ok /\ d.ret # QUEUE_EMPTY]

\* case ENTRY_STATE_READY that leaves the entry at the head when
\* band_select fails
work_ready_keep_on_band_failure(qq, i, tune, band) ==
    LET e == qq.entries[i]
        c1 == TuneCall(e.module, e.freq, tune)
        c2 == BandCall(e.module, LMS_FREQ_FLAGS_LOW_BAND \in e.freq.flags,
                       band)
        q1 == [qq EXCEPT !.entries[i].freq = Tuned(@, tune)]
        d == dequeue_retune(q1, FALSE, ZeroEntry,
                            [out |-> ZeroEntry, fault |-> FALSE])
        kept == tune.status = 0 /\ band # 0
    IN [q |-> IF kept THEN q1 ELSE d.q,
        calls |-> IF tune.status # 0 THEN <<c1, ErrorCount>>
                  ELSE IF band # 0 THEN <<c1, c2, ErrorCount>>
                  ELSE <<c1, c2>>,
        slot |-> i, tuned |-> TRUE,
        dequeued |-> ~kept /\ d.ret # QUEUE_EMPTY]

\* case ENTRY_STATE_READY that takes low_band from the
\* LMS_FREQ_FLAGS_FORCE_VCOCAP bit of the stored flags
work_ready_band_from_force(qq, i, tune, band) ==
    LET e == qq.entries[i]
        c1 == TuneCall(e.module, e.freq, tune)
        low_band == LMS_FREQ_FLAGS_FORCE_VCOCAP \in e.freq.flags
        c2 == BandCall(e.module, low_band, band)
        q1 == [qq EXCEPT !.entries[i].freq = Tuned(@, tune)]
        d == dequeue_retune(q1, FALSE, ZeroEntry,
                            [out |-> ZeroEntry, fault |-> FALSE])
    IN [q |-> d.q,
        calls |-> IF tune.status # 0 THEN <<c1, ErrorCount>>
                  ELSE IF band # 0 THEN <<c1, c2, ErrorCount>>
                  ELSE <<c1, c2>>,
        slot |-> i, tuned |-> TRUE,
        dequeued |-> d.ret # QUEUE_EMPTY]

\* pkt_retune_work, case ENTRY_STATE_READY: the retune, then the entry is
\* dropped
work_ready(qq, i, tune, band) ==
    LET e == qq.entries[i]
        c1 == TuneCall(e.module, e.freq, tune)
        low_band == LMS_FREQ_FLAGS_LOW_BAND \in e.freq.flags
        c2 == BandCall(e.module, low_band, band)
        q1 == [qq EXCEPT !.entries[i].freq = Tuned(@, tune)]
        d == dequeue_retune(q1, FALSE, ZeroEntry,
                            [out |-> ZeroEntry, fault |-> FALSE])
    IN [q |-> d.q,
        calls |-> IF tune.status # 0 THEN <<c1, ErrorCount>>
                  ELSE IF band # 0 THEN <<c1, c2, ErrorCount>>
                  ELSE <<c1, c2>>,
        slot |-> i, tuned |-> TRUE,
        dequeued |-> d.ret # QUEUE_EMPTY]

\* pkt_retune_work, default case
work_default(qq, i) ==
    [q |-> qq, calls |-> <<ErrorCount>>, slot |-> i, tuned |-> FALSE,
     dequeued |-> FALSE]

\* pkt_retune_work(): the queue after the step, the primitives called, the
\* slot of the entry peeked, whether the tuning attempt was made and whether
\* an entry was removed
work(qq, tune, band) ==
    LET i == peek_next_retune(qq)
    IN IF i = -1
       THEN [q |-> qq, calls |-> <<>>, slot |-> i, tuned |-> FALSE,
             dequeued |-> FALSE]
       ELSE CASE qq.entries[i].state = ENTRY_STATE_NEW -> work_new(qq, i)
              [] qq.entries[i].state = ENTRY_STATE_SCHEDULED ->
                    work_scheduled(qq, i)
              [] qq.entries[i].state = ENTRY_STATE_READY ->
                    work_ready(qq, i, tune, band)
              [] OTHER -> work_default(qq, i)

\* The primitives are reached only when the head entry is Ready.
HeadReady ==
    q.count # 0 /\ q.entries[q.rem_idx].state = ENTRY_STATE_READY

WorkTuneOutcomes ==
    IF HeadReady THEN TuneOutcomes
    ELSE {NoTune}

WorkBandOutcomes == IF HeadReady THEN BandOutcomes ELSE {0}

pkt_retune_work ==
    /\ ~fault
    /\ \E tune \in WorkTuneOutcomes, band \in WorkBandOutcomes :
        LET w == work(q, tune, band)
        IN /\ q' = w.q
           /\ calls' = w.calls
           /\ applied' = IF w.tuned THEN Append(applied, tkt[w.slot])
                         ELSE applied
           /\ nRemoved' = IF w.dequeued THEN nRemoved + 1 ELSE nRemoved
    /\ op' = "pkt_retune_work"
    /\ UNCHANGED <<now, req, resp, out, ret, fault, accepted, tkt, nIssued,
                   asked, pc>>

(* ------------------------- hardware events ---------------------------- *)

\* The timer event of the design: marks the Scheduled head entry Ready.
\* The file registers no timer (pkt_retune_work: "TODO: Schedule the timer
\* ISR") and keeps no timestamp in struct queue_entry, so nothing relates
\* the event to a time.
TimerEvent ==
    /\ ~fault
    /\ q.count > 0
    /\ q.entries[q.rem_idx].state = ENTRY_STATE_SCHEDULED
    /\ q' = [q EXCEPT !.entries[q.rem_idx].state = ENTRY_STATE_READY]
    /\ UNCHANGED <<now, req, resp, calls, op, out, ret, fault,
                   accepted, tkt, applied, nRemoved, nIssued, asked, pc>>

\* The hardware timestamp counter advances.
Tick ==
    /\ ~fault
    /\ now < MaxTime
    /\ now' = now + 1
    /\ UNCHANGED <<q, req, resp, calls, op, out, ret, fault,
                   accepted, tkt, applied, nRemoved, nIssued, asked, pc>>

(* ---------------------- direct calls of the queue --------------------- *)

QueueFreqs ==
    {FreqOf(r) : r \in {x \in Requests : ~x.quick_tune /\ x.nint = 1}}

EnqueueCall(f, m) ==
    /\ ~fault
    /\ LET e == enqueue_retune(q, f, m)
       IN /\ q' = e.q
          /\ ret' = e.ret
          /\ IF e.ret # QUEUE_FULL
             THEN Accept(q.ins_idx, m, f, NIOS_PKT_RETUNE_NOW)
             ELSE UNCHANGED <<accepted, tkt>>
    /\ op' = "enqueue_retune"
    /\ nIssued' = nIssued + 1
    /\ UNCHANGED <<now, req, resp, calls, out, fault, applied, nRemoved,
                   asked, pc>>

DequeueCall(has_e) ==
    /\ ~fault
    /\ \E stray \in IF has_e /\ q.count # 0 THEN StrayCopyOutcomes(q, out)
                    ELSE {[out |-> out, fault |-> FALSE]} :
        LET d == dequeue_retune(q, has_e, out, stray)
        IN /\ q' = d.q
           /\ ret' = d.ret
           /\ out' = d.out
           /\ fault' = d.fault
           /\ nRemoved' = IF d.ret # QUEUE_EMPTY THEN nRemoved + 1
                          ELSE nRemoved
    /\ op' = IF has_e THEN "dequeue_retune(e)" ELSE "dequeue_retune(NULL)"
    /\ UNCHANGED <<now, req, resp, calls, accepted, tkt, applied, nIssued,
                   asked, pc>>

(* ------------------- the operations, write by write ------------------- *)

\* The polling loop runs pkt_retune and pkt_retune_work one memory write at
\* a time, so that the timer event can fall between any two of them.  pc.at
\* names the statement the loop has come to.

\* enqueue_retune with q.count++ moved in front of the writes of the entry
EnqueueSteps_count_first == <<"count", "freq", "state", "module", "ins_idx">>

\* the writes of enqueue_retune, in program order
EnqueueSteps == <<"freq", "state", "module", "ins_idx", "count">>

\* the writes of dequeue_retune(NULL), in program order
DequeueSteps == <<"rem_idx", "count">>

\* pkt_retune up to the capacity test of enqueue_retune, for a request with
\* a timestamp other than NIOS_PKT_RETUNE_NOW
RetuneStart(r) ==
    /\ ~fault
    /\ pc = Idle
    /\ r.timestamp # NIOS_PKT_RETUNE_NOW
    /\ req' = r
    /\ nIssued' = nIssued + 1
    /\ IF q.count >= RETUNE_QUEUE_MAX
       THEN /\ resp' = pkt_retune_do(q, r, now, now, NoTune, 0).resp
            /\ op' = "pkt_retune"
            /\ calls' = <<>>
            /\ pc' = pc
       ELSE /\ pc' = [at |-> "enqueue_retune", e |-> q.ins_idx, k |-> 1]
            /\ UNCHANGED <<resp, op, calls>>
    /\ UNCHANGED <<q, now, out, ret, fault, accepted, tkt, applied,
                   nRemoved, asked>>

\* one write of enqueue_retune; after the last one pkt_retune packs the
\* response
EnqueueWrite ==
    /\ ~fault
    /\ pc.at = "enqueue_retune"
    /\ LET w == EnqueueSteps[pc.k]
           f == FreqOf(req)
           i == q.ins_idx
       IN /\ q' = CASE w = "freq" -> [q EXCEPT !.entries[i].freq = f]
                    [] w = "state" ->
                         [q EXCEPT !.entries[i].state = ENTRY_STATE_NEW]
                    [] w = "module" ->
                         [q EXCEPT !.entries[i].module = req.module]
                    [] w = "ins_idx" ->
                         [q EXCEPT !.ins_idx =
                             BitAnd(U8(q.ins_idx + 1), RETUNE_QUEUE_MAX - 1)]
                    [] w = "count" -> [q EXCEPT !.count = U8(q.count + 1)]
          /\ IF w = "count"
             THEN /\ Accept(pc.e, req.module, f, req.timestamp)
                  /\ asked' = Append(asked, req)
             ELSE UNCHANGED <<accepted, tkt, asked>>
          /\ IF pc.k = Len(EnqueueSteps)
             THEN /\ pc' = Idle
                  /\ op' = "pkt_retune"
                  /\ calls' = <<>>
                  /\ resp' = [duration |-> 0,
                              vcocap_result |-> f.vcocap_result,
                              flags |-> {NIOS_PKT_RETUNERESP_FLAG_SUCCESS}]
             ELSE /\ pc' = [pc EXCEPT !.k = @ + 1]
                  /\ UNCHANGED <<op, calls, resp>>
    /\ UNCHANGED <<now, req, out, ret, fault, applied, nRemoved, nIssued>>

\* pkt_retune_work: e = peek_next_retune() and the return on NULL
WorkPeek ==
    /\ ~fault
    /\ pc = Idle
    /\ LET i == peek_next_retune(q)
       IN IF i = -1
          THEN /\ op' = "pkt_retune_work"
               /\ calls' = <<>>
               /\ pc' = pc
          ELSE /\ pc' = [at |-> "switch", e |-> i, k |-> 0]
               /\ UNCHANGED <<op, calls>>
    /\ UNCHANGED <<q, now, req, resp, out, ret, fault, accepted, tkt,
                   applied, nRemoved, nIssued, asked>>

\* pkt_retune_work: switch (e->state), one read of the volatile field
WorkSwitch ==
    /\ ~fault
    /\ pc.at = "switch"
    /\ LET st == q.entries[pc.e].state
       IN CASE st = ENTRY_STATE_NEW ->
                 /\ pc' = [pc EXCEPT !.at = "case_new"]
                 /\ UNCHANGED <<op, calls>>
            [] st = ENTRY_STATE_SCHEDULED ->
                 /\ pc' = Idle
                 /\ op' = "pkt_retune_work"
                 /\ calls' = work_scheduled(q, pc.e).calls
            [] st = ENTRY_STATE_READY ->
                 /\ pc' = [pc EXCEPT !.at = "case_ready"]
                 /\ UNCHANGED <<op, calls>>
            [] OTHER ->
                 /\ pc' = Idle
                 /\ op' = "pkt_retune_work"
                 /\ calls' = work_default(q, pc.e).calls
    /\ UNCHANGED <<q, now, req, resp, out, ret, fault, accepted, tkt,
                   applied, nRemoved, nIssued, asked>>

\* pkt_retune_work, case ENTRY_STATE_NEW: e->state = ENTRY_STATE_SCHEDULED
WorkNew ==
    /\ ~fault
    /\ pc.at = "case_new"
    /\ q' = [q EXCEPT !.entries[pc.e].state = ENTRY_STATE_SCHEDULED]
    /\ pc' = Idle
    /\ op' = "pkt_retune_work"
    /\ calls' = <<>>
    /\ UNCHANGED <<now, req, resp, out, ret, fault, accepted, tkt,
                   applied, nRemoved, nIssued, asked>>

\* pkt_retune_work, case ENTRY_STATE_READY: the two primitives, up to the
\* call of dequeue_retune(NULL)
WorkReady ==
    /\ ~fault
    /\ pc.at = "case_ready"
    /\ \E tune \in TuneOutcomes, band \in BandOutcomes :
        /\ q' = [q EXCEPT !.entries[pc.e].freq = Tuned(@, tune)]
        /\ calls' = work_ready(q, pc.e, tune, band).calls
    /\ applied' = Append(applied, tkt[pc.e])
    /\ pc' = [at |-> "dequeue_retune", e |-> pc.e, k |-> 1]
    /\ UNCHANGED <<now, req, resp, op, out, ret, fault, accepted, tkt,
                   nRemoved, nIssued, asked>>

\* one write of dequeue_retune(NULL), the capacity test first
DequeueWrite ==
    /\ ~fault
    /\ pc.at = "dequeue_retune"
    /\ LET w == DequeueSteps[pc.k]
           empty == pc.k = 1 /\ q.count = 0
           last == empty \/ pc.k = Len(DequeueSteps)
       IN /\ q' = CASE empty -> q
                    [] w = "rem_idx" ->
                         [q EXCEPT !.rem_idx =
                             BitAnd(U8(q.rem_idx + 1), RETUNE_QUEUE_MAX - 1)]
                    [] w = "count" -> [q EXCEPT !.count = U8(q.count + 255)]
          /\ nRemoved' = IF ~empty /\ w = "count" THEN nRemoved + 1
                         ELSE nRemoved
          /\ IF last
             THEN pc' = Idle /\ op' = "pkt_retune_work"
             ELSE pc' = [pc EXCEPT !.k = @ + 1] /\ UNCHANGED op
    /\ UNCHANGED <<now, req, resp, calls, out, ret, fault, accepted, tkt,
                   applied, nIssued, asked>>

(* --------------------------- specifications --------------------------- *)

Init ==
    /\ q = pkt_retune_init
    /\ now = 0
    /\ req = ZeroReq
    /\ resp = ZeroResp
    /\ calls = <<>>
    /\ op = "pkt_retune_init"
    /\ out = ZeroEntry
    /\ ret = 0
    /\ fault = FALSE
    /\ accepted = <<>>
    /\ tkt = [i \in Slots |-> 0]
    /\ applied = <<>>
    /\ nRemoved = 0
    /\ nIssued = 0
    /\ asked = <<>>
    /\ pc = Idle

\* The firmware's main loop: requests of every shape, scheduler steps,
\* timer events, time passing.
Next ==
    \/ \E r \in Requests : nIssued < MaxRequests /\ pkt_retune(r)
    \/ pkt_retune_work
    \/ TimerEvent
    \/ Tick

Spec == Init /\ [][Next]_vars

\* Long runs: deferred receive-path requests with one field set, enough of
\* them to go twice around the ring and once more.
FifoRequests ==
    {r \in Requests :
        /\ r.module = BLADERF_MODULE_RX
        /\ r.timestamp = 1
        /\ r.nint = 1
        /\ r.low_band /\ ~r.quick_tune}

NextFifo ==
    \/ \E r \in FifoRequests :
          nIssued < 2 * RETUNE_QUEUE_MAX + 1 /\ pkt_retune(r)
    \/ pkt_retune_work
    \/ TimerEvent

SpecFifo == Init /\ [][NextFifo]_vars

\* SpecFifo with a polling loop that keeps calling the scheduler step and
\* a timer that fires for a head entry that stays Scheduled.
SpecFifoLive ==
    /\ Init /\ [][NextFifo]_vars
    /\ WF_vars(pkt_retune_work)
    /\ WF_vars(TimerEvent)

\* The timer never fires: receive-path requests, deferred and apply-now,
\* and scheduler steps only, with more requests than the ring holds.
StallRequests ==
    {r \in Requests : r.module = BLADERF_MODULE_RX /\ ~r.quick_tune}

NextStall ==
    \/ \E r \in StallRequests :
          nIssued < RETUNE_QUEUE_MAX + 2 /\ pkt_retune(r)
    \/ pkt_retune_work

SpecStall == Init /\ [][NextStall]_vars

\* The polling loop one write at a time, the timer event between any two.
NextIsr ==
    \/ \E r \in FifoRequests :
          nIssued < 2 * RETUNE_QUEUE_MAX + 1 /\ RetuneStart(r)
    \/ EnqueueWrite
    \/ WorkPeek
    \/ WorkSwitch
    \/ WorkNew
    \/ WorkReady
    \/ DequeueWrite
    \/ TimerEvent

SpecIsr == Init /\ [][NextIsr]_vars

\* Deferred receive-path requests with every combination of the two flags,
\* one more than the ring holds, so that slots are reused by requests that
\* differ from the ones they held.
MixRequests ==
    {r \in Requests :
        r.module = BLADERF_MODULE_RX /\ r.timestamp # NIOS_PKT_RETUNE_NOW}

NextMix ==
    \/ \E r \in MixRequests :
          nIssued < RETUNE_QUEUE_MAX + 1 /\ pkt_retune(r)
    \/ pkt_retune_work
    \/ TimerEvent

SpecMix == Init /\ [][NextMix]_vars

\* The queue routines called directly, as a unit test would.
NextQueue ==
    \/ \E f \in QueueFreqs, m \in ValidModules :
          nIssued < RETUNE_QUEUE_MAX + 1 /\ EnqueueCall(f, m)
    \/ \E has_e \in BOOLEAN : DequeueCall(has_e)

SpecQueue == Init /\ [][NextQueue]_vars


\* Deferred requests, scheduler steps and timer events, with
\* dequeue_retune also called directly, with and without a destination.
NextDrain ==
    \/ \E r \in FifoRequests :
          nIssued < RETUNE_QUEUE_MAX + 1 /\ pkt_retune(r)
    \/ pkt_retune_work
    \/ TimerEvent
    \/ \E has_e \in BOOLEAN : DequeueCall(has_e)

SpecDrain == Init /\ [][NextDrain]_vars

\* Everything that moves the indices, in any order: deferred requests,
\* scheduler steps, timer events, and enqueue_retune and dequeue_retune(NULL)
\* called directly, past one lap of the ring.
NextAll ==
    \/ \E r \in FifoRequests :
          nIssued < RETUNE_QUEUE_MAX + 1 /\ pkt_retune(r)
    \/ pkt_retune_work
    \/ TimerEvent
    \/ \E f \in {FreqOf(r) : r \in FifoRequests} :
          nIssued < RETUNE_QUEUE_MAX + 1 /\ EnqueueCall(f, BLADERF_MODULE_RX)
    \/ DequeueCall(FALSE)

SpecAll == Init /\ [][NextAll]_vars

(* ------------------------------ claims -------------------------------- *)

\* slot i holds a live entry of queue qq
Live(qq, i) ==
    \E k \in 0 .. (qq.count - 1) : i = (qq.rem_idx + k) % RETUNE_QUEUE_MAX

\* the frequency specification a request asks for
Wanted(r) ==
    [nint |-> r.nint, nfrac |-> r.nfrac, freqsel |-> r.freqsel,
     vcocap |-> r.vcocap, vcocap_result |-> VCOCAP_UNKNOWN,
     flags |-> {x \in {LMS_FREQ_FLAGS_LOW_BAND} : r.low_band} \cup
               {x \in {LMS_FREQ_FLAGS_FORCE_VCOCAP} : r.quick_tune}]

\* C1: the deferred requests are applied to hardware in the order in which
\* they were accepted: the k-th tuning attempt of the scheduler step is
\* made for the k-th accepted request, however often the ring has wrapped.
C1_FifoOrder ==
    \A k \in 1 .. Len(applied) : applied[k] = k

\* C1 witness: more requests than two laps of the ring have been applied.
C1_Witness ==
    Len(applied) > 2 * RETUNE_QUEUE_MAX

\* C2: no accepted request is applied twice: the tuning attempts are as
\* many as the entries removed, each attempt is for an accepted request,
\* no request has two attempts, and what is accepted is removed or live.
C2_AtMostOnce ==
    /\ Len(applied) = nRemoved
    /\ \A k \in 1 .. Len(applied) : applied[k] \in 1 .. Len(accepted)
    /\ \A j, k \in 1 .. Len(applied) : j # k => applied[j] # applied[k]
    /\ Len(accepted) = nRemoved + q.count

\* C2 witness: an attempt that failed in hardware was made and the entry is
\* gone, with other attempts before it.
C2_Witness ==
    /\ op = "pkt_retune_work"
    /\ Len(calls) >= 1 /\ calls[1].status # 0
    /\ Len(applied) >= 2
    /\ nRemoved = Len(applied)


C4_InvalidModuleRejected ==
    /\ (op = "pkt_retune" /\ req.module \notin ValidModules)
           => NIOS_PKT_RETUNERESP_FLAG_SUCCESS \notin resp.flags
    /\ \A i \in Slots : Live(q, i) => q.entries[i].module \in ValidModules

\* C5: a remove with a destination supplied returns through it the entry
\* inserted first among those not yet removed, every field as inserted.
C5_RemoveRoundTrip ==
    (op = "dequeue_retune(e)" /\ ret # QUEUE_EMPTY)
        => /\ ~fault
           /\ out.module = accepted[nRemoved].module
           /\ out.freq = accepted[nRemoved].freq

\* C6: at count == RETUNE_QUEUE_MAX an insert returns QUEUE_FULL and
\* changes nothing in the queue, and a deferred request dispatched then is
\* answered with the success flag clear and duration 0.  (A step of
\* pkt_retune leaves the request it served in req.)
C6_FullRejects ==
    [][/\ q.count = RETUNE_QUEUE_MAX =>
            \A r \in Requests :
                enqueue_retune(q, Wanted(r), r.module) =
                    [q |-> q, ret |-> QUEUE_FULL]
       /\ (/\ q.count = RETUNE_QUEUE_MAX
           /\ req'.timestamp # NIOS_PKT_RETUNE_NOW
           /\ pkt_retune(req'))
              => /\ q' = q
                 /\ NIOS_PKT_RETUNERESP_FLAG_SUCCESS \notin resp'.flags
                 /\ resp'.duration = 0]_vars

\* C6 witness: a deferred request was refused by the full queue.
C6_Witness ==
    /\ q.count = RETUNE_QUEUE_MAX
    /\ op = "pkt_retune"
    /\ req.timestamp # NIOS_PKT_RETUNE_NOW
    /\ NIOS_PKT_RETUNERESP_FLAG_SUCCESS \notin resp.flags
    /\ Len(accepted) > RETUNE_QUEUE_MAX

\* the entry in slot i before a step is still in the queue after it
Stays(i) == Live(q, i) /\ Live(q', i) /\ tkt'[i] = tkt[i]

\* C7: an entry's state moves only along New -> Scheduled -> Ready ->
\* removed: an entry enters as New, a step leaves its state alone or takes
\* New to Scheduled or Scheduled to Ready, and only a Ready entry is
\* removed.
C7_StateProgress ==
    [][\A i \in Slots :
        /\ Stays(i) =>
            \/ q'.entries[i].state = q.entries[i].state
            \/ /\ q.entries[i].state = ENTRY_STATE_NEW
               /\ q'.entries[i].state = ENTRY_STATE_SCHEDULED
            \/ /\ q.entries[i].state = ENTRY_STATE_SCHEDULED
               /\ q'.entries[i].state = ENTRY_STATE_READY
        /\ (Live(q, i) /\ ~Stays(i)) =>
            q.entries[i].state = ENTRY_STATE_READY
        /\ (Live(q', i) /\ ~Stays(i)) =>
            q'.entries[i].state = ENTRY_STATE_NEW]_vars

\* C7 witness: entries have been removed, the ring has wrapped, and the
\* head entry is Ready with New entries behind it.
C7_Witness ==
    /\ nRemoved > RETUNE_QUEUE_MAX
    /\ q.count > 1
    /\ q.entries[q.rem_idx].state = ENTRY_STATE_READY

\* C8: a request with the apply-now timestamp leaves the queue as it was,
\* whatever the primitives return, and with a valid module the tuning
\* primitive is called for it in the same call, entries pending or not.
C8_NowLeavesQueue ==
    [][(req'.timestamp = NIOS_PKT_RETUNE_NOW /\ pkt_retune(req'))
            => /\ q' = q
               /\ req'.module \in ValidModules =>
                    /\ Len(calls') >= 1
                    /\ calls'[1].fn = "lms_set_precalculated_frequency"
                    /\ calls'[1].module = req'.module
                    /\ calls'[1].freq = Wanted(req')]_vars

\* C8 witness: an apply-now request was tuned while an entry was pending,
\* and band selection failed.
C8_Witness ==
    /\ op = "pkt_retune"
    /\ req.timestamp = NIOS_PKT_RETUNE_NOW
    /\ q.count > 0
    /\ Len(calls) = 2 /\ calls[2].status # 0

\* C9: a deferred request with a valid module, dispatched at count <
\* RETUNE_QUEUE_MAX, adds exactly one entry: a New entry with the
\* request's module and frequency specification at the tail; no primitive
\* is called; the response has the success flag alone, duration 0 and the
\* all-ones capacitance result.
C9_DeferredAccepted ==
    [][(/\ req'.timestamp # NIOS_PKT_RETUNE_NOW
        /\ req'.module \in ValidModules
        /\ q.count < RETUNE_QUEUE_MAX
        /\ pkt_retune(req'))
            => /\ q'.count = q.count + 1
               /\ q'.rem_idx = q.rem_idx
               /\ q'.ins_idx = (q.ins_idx + 1) % RETUNE_QUEUE_MAX
               /\ q'.entries =
                    [q.entries EXCEPT ![q.ins_idx] =
                        [state |-> ENTRY_STATE_NEW, module |-> req'.module,
                         freq |-> Wanted(req')]]
               /\ calls' = <<>>
               /\ resp' = [duration |-> 0, vcocap_result |-> VCOCAP_UNKNOWN,
                           flags |-> {NIOS_PKT_RETUNERESP_FLAG_SUCCESS}]]_vars

\* C9 witness: a deferred request with both flags set was accepted behind
\* a pending entry.
C9_Witness ==
    /\ op = "pkt_retune"
    /\ req.timestamp # NIOS_PKT_RETUNE_NOW
    /\ req.module \in ValidModules
    /\ req.low_band /\ req.quick_tune
    /\ q.count = 2
    /\ NIOS_PKT_RETUNERESP_FLAG_SUCCESS \in resp.flags

\* C10: an apply-now request with a valid module whose tuning call fails
\* is answered with the success and duration-valid flags clear and
\* duration 0, and band selection is not called.
C10_TuneFailure ==
    (/\ op = "pkt_retune"
     /\ req.timestamp = NIOS_PKT_RETUNE_NOW
     /\ req.module \in ValidModules
     /\ Len(calls) >= 1
     /\ calls[1].status # 0)
        => /\ resp.flags = {}
           /\ resp.duration = 0
           /\ \A k \in 1 .. Len(calls) : calls[k].fn # "band_select"

\* C10 witness: the tuning call of an apply-now request failed after time
\* had passed.
C10_Witness ==
    /\ op = "pkt_retune"
    /\ req.timestamp = NIOS_PKT_RETUNE_NOW
    /\ req.module \in ValidModules
    /\ Len(calls) >= 1
    /\ calls[1].status # 0
    /\ now > 0

\* C11: an apply-now request with a valid module whose tuning call
\* succeeds and whose band selection fails is answered with the success
\* flag clear, the duration-valid flag set, duration 0 and the capacitance
\* result the tuning primitive left in f.vcocap_result.
C11_BandFailure ==
    (/\ op = "pkt_retune"
     /\ req.timestamp = NIOS_PKT_RETUNE_NOW
     /\ req.module \in ValidModules
     /\ Len(calls) = 2
     /\ calls[1].status = 0
     /\ calls[2].fn = "band_select" /\ calls[2].status # 0)
        => /\ resp.flags = {NIOS_PKT_RETUNERESP_FLAG_TSVTUNE_VALID}
           /\ resp.duration = 0
           /\ resp.vcocap_result = calls[1].result

\* C11 witness: band selection of an apply-now request failed after time
\* had passed and after the tuning primitive had written a result.
C11_Witness ==
    /\ op = "pkt_retune"
    /\ req.timestamp = NIOS_PKT_RETUNE_NOW
    /\ req.module \in ValidModules
    /\ Len(calls) = 2
    /\ calls[1].status = 0 /\ calls[1].result # VCOCAP_UNKNOWN
    /\ calls[2].status # 0
    /\ now > 0

\* C12: a scheduler step that finds the head entry Ready removes it whatever
\* the tuning primitive and band selection return: count goes down by
\* exactly one, the remove index advances by one, the insert index and the
\* entries behind the head stay, the attempt is the first for that entry,
\* and nothing is inserted again.
C12_FailureDoesNotBlock ==
    [][(HeadReady /\ pkt_retune_work)
            => /\ q'.count = q.count - 1
               /\ q'.rem_idx = (q.rem_idx + 1) % RETUNE_QUEUE_MAX
               /\ q'.ins_idx = q.ins_idx
               /\ \A i \in Slots \ {q.rem_idx} : q'.entries[i] = q.entries[i]
               /\ ~Live(q', q.rem_idx)
               /\ applied' = Append(applied, tkt[q.rem_idx])
               /\ \A k \in 1 .. Len(applied) : applied[k] # tkt[q.rem_idx]
               /\ accepted' = accepted /\ tkt' = tkt
               /\ nRemoved' = nRemoved + 1]_vars

\* C12 witness: band selection failed for the head entry, the entry is gone
\* and the entry behind it is now the head.
C12_Witness ==
    /\ op = "pkt_retune_work"
    /\ Len(calls) = 3 /\ calls[2].fn = "band_select" /\ calls[2].status # 0
    /\ nRemoved = 1 /\ Len(applied) = 1
    /\ q.count = 1 /\ q.rem_idx = 1

\* C13: a remove at count == 0 returns QUEUE_EMPTY and changes nothing,
\* neither the queue nor the caller's struct; and the scheduler step never
\* gets QUEUE_EMPTY from the remove it calls: at count == 0 it returns
\* without calling anything, and whenever it makes a tuning attempt the
\* remove that follows takes an entry out.
C13_EmptyRemove ==
    [][/\ (q.count = 0 /\ \E has_e \in BOOLEAN : DequeueCall(has_e))
            => /\ ret' = QUEUE_EMPTY
               /\ q' = q
               /\ out' = out /\ fault' = fault
               /\ nRemoved' = nRemoved
       /\ pkt_retune_work
            => /\ q.count = 0 =>
                    /\ q' = q /\ calls' = <<>>
                    /\ applied' = applied /\ nRemoved' = nRemoved
               /\ applied' # applied =>
                    /\ q.count > 0
                    /\ q'.count = q.count - 1
                    /\ nRemoved' = nRemoved + 1]_vars

\* C13 witness: a remove was called on a queue that entries had passed
\* through, some taken out by the scheduler step, and returned QUEUE_EMPTY.
C13_Witness ==
    /\ op \in {"dequeue_retune(e)", "dequeue_retune(NULL)"}
    /\ ret = QUEUE_EMPTY
    /\ q.count = 0 /\ q.rem_idx # 0
    /\ Len(applied) >= 1
    /\ nRemoved > Len(applied)

\* C14: the default case of the scheduler step is never taken: every live
\* entry, the head in particular, has state New, Scheduled or Ready, never
\* ENTRY_STATE_INVALID or another value, and no scheduler step ends in the
\* lone INCREMENT_ERROR_COUNT of the default case.
C14_DefaultUnreachable ==
    /\ \A i \in Slots :
          Live(q, i) => q.entries[i].state \in
              {ENTRY_STATE_NEW, ENTRY_STATE_SCHEDULED, ENTRY_STATE_READY}
    /\ q.count > 0 => work(q, NoTune, 0) # work_default(q, q.rem_idx)
    /\ ~(op = "pkt_retune_work" /\ calls = <<ErrorCount>>)

\* C14 witness: the ring has wrapped, every slot is live and reused, and
\* the head has been through the scheduler step and the timer event.
C14_Witness ==
    /\ q.count = RETUNE_QUEUE_MAX
    /\ nRemoved > RETUNE_QUEUE_MAX
    /\ q.entries[q.rem_idx].state = ENTRY_STATE_READY
    /\ op = "pkt_retune_work"

\* C15: with the scheduler step polled and the timer firing, every
\* deferred request accepted into the queue is eventually removed after a
\* tuning attempt was made for it (applied, or discarded on a hardware
\* failure), and no entry is ever removed without an attempt.
C15_EventuallyRemoved ==
    /\ [](nRemoved = Len(applied))
    /\ \A k \in 1 .. (2 * RETUNE_QUEUE_MAX + 1) :
          (Len(accepted) >= k) ~>
              (/\ nRemoved >= k
               /\ \E j \in 1 .. Len(applied) : applied[j] = k
               /\ \A i \in Slots : Live(q, i) => tkt[i] # k)

\* C15 witness: every request the driver had to give was accepted and has
\* left the queue, the last one after a failed tuning call.
C15_Witness ==
    /\ Len(accepted) = 2 * RETUNE_QUEUE_MAX + 1
    /\ nRemoved = Len(accepted)
    /\ q.count = 0
    /\ op = "pkt_retune_work" /\ calls # <<>> /\ calls[1].status # 0

\* C16: when the timer event never fires nothing is ever removed or
\* applied: the head is New or Scheduled and every entry behind it New, no
\* step lowers count, a Scheduled head stays Scheduled, and once
\* RETUNE_QUEUE_MAX deferred requests have been accepted every further
\* deferred request is refused (success flag clear, queue unchanged).
C16_StalledWithoutTimer ==
    /\ [](/\ nRemoved = 0 /\ applied = <<>>
          /\ q.rem_idx = 0 /\ q.count = Len(accepted)
          /\ \A i \in Slots : Live(q, i) =>
                q.entries[i].state \in
                    IF i = q.rem_idx
                    THEN {ENTRY_STATE_NEW, ENTRY_STATE_SCHEDULED}
                    ELSE {ENTRY_STATE_NEW})
    /\ [][/\ q'.count >= q.count
          /\ (q.count > 0
              /\ q.entries[q.rem_idx].state = ENTRY_STATE_SCHEDULED)
                => q'.entries[q.rem_idx].state = ENTRY_STATE_SCHEDULED
          /\ (/\ Len(accepted) >= RETUNE_QUEUE_MAX
              /\ req'.timestamp # NIOS_PKT_RETUNE_NOW
              /\ pkt_retune(req'))
                => /\ NIOS_PKT_RETUNERESP_FLAG_SUCCESS \notin resp'.flags
                   /\ q' = q /\ accepted' = accepted]_vars

\* C16 witness: the head is Scheduled, the ring is full of entries that
\* wait behind it, and a second deferred request in a row was refused.
C16_Witness ==
    /\ q.count = RETUNE_QUEUE_MAX
    /\ q.entries[q.rem_idx].state = ENTRY_STATE_SCHEDULED
    /\ nIssued = RETUNE_QUEUE_MAX + 2
    /\ op = "pkt_retune"
    /\ req.timestamp # NIOS_PKT_RETUNE_NOW
    /\ NIOS_PKT_RETUNERESP_FLAG_SUCCESS \notin resp.flags

\* enqueue_retune has made write w of the insert in progress
Written(w) ==
    /\ pc.at = "enqueue_retune"
    /\ \E j \in 1 .. (pc.k - 1) : EnqueueSteps[j] = w

\* C17: with the timer event falling between any two writes of insert,
\* remove and the scheduler step, and writing only Ready into a Scheduled
\* head, the queue stays sound: count is the number of entries accepted and
\* not removed and both indices follow the inserts and removes made; the
\* tuning attempts are the accepted requests in order, each once, and at
\* most one ahead of the removes; every accepted entry not yet applied sits
\* in its slot with the module and frequency specification of its request
\* (so they were written before count made the entry visible), New unless
\* it is the head; and the timer event only ever writes into such an entry.
C17_NoCorruption ==
    /\ [](/\ q.count = Len(accepted) - nRemoved
          /\ q.count \in 0 .. RETUNE_QUEUE_MAX
          /\ q.ins_idx = (Len(accepted)
                          - (IF Written("count") THEN 1 ELSE 0)
                          + (IF Written("ins_idx") THEN 1 ELSE 0))
                            % RETUNE_QUEUE_MAX
          /\ q.rem_idx = (nRemoved
                          + (IF pc.at = "dequeue_retune" /\ pc.k = 2
                             THEN 1 ELSE 0)) % RETUNE_QUEUE_MAX
          /\ Len(applied) = nRemoved
                          + (IF pc.at = "dequeue_retune" THEN 1 ELSE 0)
          /\ \A k \in 1 .. Len(applied) : applied[k] = k
          /\ \A k \in (Len(applied) + 1) .. Len(accepted) :
                LET i == (k - 1) % RETUNE_QUEUE_MAX
                IN /\ tkt[i] = k
                   /\ q.entries[i].module = accepted[k].module
                   /\ q.entries[i].freq = accepted[k].freq
                   /\ q.entries[i].state \in
                        IF k = Len(applied) + 1
                        THEN {ENTRY_STATE_NEW, ENTRY_STATE_SCHEDULED,
                              ENTRY_STATE_READY}
                        ELSE {ENTRY_STATE_NEW})
    /\ [][TimerEvent =>
            /\ Len(applied) < Len(accepted)
            /\ tkt[q.rem_idx] = Len(applied) + 1
            /\ q' = [q EXCEPT !.entries[q.rem_idx].state =
                                  ENTRY_STATE_READY]]_vars

\* C17 witness: the ring has wrapped, an insert has written the entry and
\* advanced the insert index but not yet count, and the head entry is
\* Scheduled, so the timer event can fall right here.
C17_Witness ==
    /\ pc.at = "enqueue_retune" /\ pc.k = Len(EnqueueSteps)
    /\ nRemoved > RETUNE_QUEUE_MAX
    /\ q.count > 0
    /\ q.entries[q.rem_idx].state = ENTRY_STATE_SCHEDULED

\* C18: every live entry that is not at the remove index is New; a
\* scheduler step changes no entry but the one at the remove index, and a
\* scheduler step that finds the head Scheduled changes nothing in the
\* queue and calls nothing.
C18_OnlyHeadMoves ==
    /\ [](\A i \in Slots :
            (Live(q, i) /\ i # q.rem_idx)
                => q.entries[i].state = ENTRY_STATE_NEW)
    /\ [][pkt_retune_work =>
            /\ \A i \in Slots \ {q.rem_idx} : q'.entries[i] = q.entries[i]
            /\ q'.ins_idx = q.ins_idx
            /\ (q.count > 0
                /\ q.entries[q.rem_idx].state = ENTRY_STATE_SCHEDULED)
                  => /\ q' = q
                     /\ calls' = <<>>
                     /\ applied' = applied /\ nRemoved' = nRemoved]_vars

\* C18 witness: after the ring has wrapped the scheduler step has just
\* found a Scheduled head with the rest of the ring full of entries
\* waiting behind it.
C18_Witness ==
    /\ op = "pkt_retune_work" /\ calls = <<>>
    /\ q.count = RETUNE_QUEUE_MAX
    /\ q.rem_idx # 0
    /\ nRemoved > RETUNE_QUEUE_MAX
    /\ q.entries[q.rem_idx].state = ENTRY_STATE_SCHEDULED

\* C19: when the scheduler step applies an entry, the tuning primitive gets
\* the module and the synthesizer fields of the request that created the
\* entry, the low-band flag set iff the request's low_band was set and the
\* force-capacitance flag set iff its quick_tune was set, and band
\* selection gets that module and that low_band, whatever was requested in
\* between.
C19_AppliedAsRequested ==
    (/\ op = "pkt_retune_work"
     /\ calls # <<>>
     /\ calls[1].fn = "lms_set_precalculated_frequency")
        => LET r == asked[applied[Len(applied)]]
               c == calls[1]
           IN /\ c.module = r.module
              /\ c.freq.nint = r.nint /\ c.freq.nfrac = r.nfrac
              /\ c.freq.freqsel = r.freqsel /\ c.freq.vcocap = r.vcocap
              /\ c.freq.flags \subseteq
                    {LMS_FREQ_FLAGS_LOW_BAND, LMS_FREQ_FLAGS_FORCE_VCOCAP}
              /\ (LMS_FREQ_FLAGS_LOW_BAND \in c.freq.flags) = r.low_band
              /\ (LMS_FREQ_FLAGS_FORCE_VCOCAP \in c.freq.flags)
                    = r.quick_tune
              /\ \A k \in 2 .. Len(calls) :
                    calls[k].fn = "band_select"
                        => /\ calls[k].module = r.module
                           /\ calls[k].low_band = r.low_band

\* C19 witness: the request that reused the first slot of the ring, with
\* both flags unlike those of the request the slot held before, has been
\* applied, band selection included.
C19_Witness ==
    /\ op = "pkt_retune_work"
    /\ Len(applied) = RETUNE_QUEUE_MAX + 1
    /\ asked[1].low_band # asked[RETUNE_QUEUE_MAX + 1].low_band
    /\ asked[1].quick_tune # asked[RETUNE_QUEUE_MAX + 1].quick_tune
    /\ asked[RETUNE_QUEUE_MAX + 1].low_band
            # asked[RETUNE_QUEUE_MAX + 1].quick_tune
    /\ Len(calls) >= 2 /\ calls[2].fn = "band_select"

RECURSIVE EnqueueTimes(_, _)
\* n calls of enqueue_retune in a row
EnqueueTimes(qq, n) ==
    IF n = 0 THEN qq
    ELSE EnqueueTimes(enqueue_retune(qq, ZeroFreq, BLADERF_MODULE_RX).q,
                      n - 1)

RECURSIVE DequeueTimes(_, _)
\* n calls of dequeue_retune(NULL) in a row
DequeueTimes(qq, n) ==
    IF n = 0 THEN qq
    ELSE DequeueTimes(dequeue_retune(qq, FALSE, ZeroEntry,
                          [out |-> ZeroEntry, fault |-> FALSE]).q,
                      n - 1)

\* C20: in every state reached by inserts, removes, requests and scheduler
\* steps, count is in 0..RETUNE_QUEUE_MAX, both indices are slot numbers
\* and the insert index is the remove index plus count, modulo the
\* capacity; so the indices are equal exactly when the queue is empty or
\* full; the insert index counts the inserts and the remove index the
\* removes, modulo the capacity; and from any empty state,
\* RETUNE_QUEUE_MAX inserts fill the queue and RETUNE_QUEUE_MAX removes
\* then bring count to 0 and both indices back.
C20_IndexInvariant ==
    /\ q.count \in 0 .. RETUNE_QUEUE_MAX
    /\ q.ins_idx \in Slots /\ q.rem_idx \in Slots
    /\ q.ins_idx = (q.rem_idx + q.count) % RETUNE_QUEUE_MAX
    /\ (q.ins_idx = q.rem_idx) = (q.count \in {0, RETUNE_QUEUE_MAX})
    /\ q.ins_idx = Len(accepted) % RETUNE_QUEUE_MAX
    /\ q.rem_idx = nRemoved % RETUNE_QUEUE_MAX
    /\ q.count = 0 =>
        LET full == EnqueueTimes(q, RETUNE_QUEUE_MAX)
            back == DequeueTimes(full, RETUNE_QUEUE_MAX)
        IN /\ full.count = RETUNE_QUEUE_MAX
           /\ full.ins_idx = q.ins_idx /\ full.rem_idx = q.rem_idx
           /\ back.count = 0
           /\ back.ins_idx = q.ins_idx /\ back.rem_idx = q.rem_idx

\* C20 witness: RETUNE_QUEUE_MAX entries went in, by requests and by direct
\* inserts, and came out, by the scheduler step and by direct removes; the
\* queue is empty again with both indices wrapped to where they started.
C20_Witness ==
    /\ Len(accepted) = RETUNE_QUEUE_MAX /\ nRemoved = RETUNE_QUEUE_MAX
    /\ q.count = 0 /\ q.ins_idx = 0 /\ q.rem_idx = 0
    /\ Len(applied) >= 1 /\ Len(applied) < nRemoved
    /\ Len(asked) >= 1 /\ Len(asked) < Len(accepted)

=============================================================================
